---------------------------- MODULE Spec2Model ----------------------------
(***************************************************************************)
(* Model of python/ksource/tally.py: read_spectrum, the T4Tally            *)
(* constructor (a single forward scan of a TRIPOLI-4 output file) and the  *)
(* T4Tally methods save_tracks, plot and plot2D.                           *)
(*                                                                         *)
(* Text is modelled at the level of atoms: a line is a sequence of atoms,  *)
(* an atom being a whitespace character ("sp", "tab", "nl") or an          *)
(* indivisible piece of text ("SCORE", "END_", "T", "x", a digit, ...).    *)
(* Python's `pat in line` is containment of a contiguous atom sequence,    *)
(* line.split() cuts the atoms at whitespace, and a token is the sequence  *)
(* of atoms between two cuts.  "T" is the requested tally name.            *)
(*                                                                         *)
(* Numbers are exact rationals <<n, d>> with d > 0 in lowest terms.        *)
(***************************************************************************)
EXTENDS Integers, Sequences, FiniteSets, TLC

\* ------------------------------------------------------------------ bounds
\* most lines of the spectrum CSV file
MaxCsv == 2
\* most lines read from the TRIPOLI-4 output file
MaxLines == 9
\* an accumulation loop reads on only while buf holds at most this many
\* tokens more than the step requires
MaxExtra == 1
\* most method calls on a constructed T4Tally
MaxOps == 2

\* the token counts required of the mesh and of the frame (lines 129, 158)
MeshTokens == 10
FrameTokens == 12

\* ------------------------------------------------------------- rationals
RECURSIVE GCD(_, _)
GCD(a, b) == IF b = 0 THEN a ELSE GCD(b, a % b)

Abs(n) == IF n < 0 THEN -n ELSE n

Rat(n, d) ==
  LET g == GCD(Abs(n), Abs(d))
      s == IF d < 0 THEN -1 ELSE 1
  IN  <<(s * n) \div g, (s * d) \div g>>

RInt(n) == <<n, 1>>
RAdd(p, q) == Rat(p[1] * q[2] + q[1] * p[2], p[2] * q[2])
RMul(p, q) == Rat(p[1] * q[1], p[2] * q[2])
RDiv(p, q) == Rat(p[1] * q[2], p[2] * q[1])
RPos(p) == p[1] > 0

RECURSIVE RSum(_)
RSum(s) == IF s = <<>> THEN RInt(0) ELSE RAdd(Head(s), RSum(Tail(s)))

RECURSIVE Prod(_)
Prod(s) == IF s = <<>> THEN 1 ELSE Head(s) * Prod(Tail(s))

\* ------------------------------------------------------------------ text
Whitespace == {"sp", "tab", "nl"}

\* pat in line
Contains(line, pat) ==
  \E i \in 1..(Len(line) - Len(pat) + 1) : SubSeq(line, i, i + Len(pat) - 1) = pat

\* line.split(): the maximal runs of non-whitespace atoms, in order
RECURSIVE SplitFrom(_, _, _, _)
SplitFrom(line, i, cur, acc) ==
  IF i > Len(line)
    THEN IF cur = <<>> THEN acc ELSE Append(acc, cur)
    ELSE IF line[i] \in Whitespace
           THEN SplitFrom(line, i + 1, <<>>, IF cur = <<>> THEN acc ELSE Append(acc, cur))
           ELSE SplitFrom(line, i + 1, Append(cur, line[i]), acc)

Split(line) == SplitFrom(line, 1, <<>>, <<>>)

\* list.index(tok), 1-based; 0 stands for the ValueError of a missing item
Index(toks, tok) ==
  IF \E i \in DOMAIN toks : toks[i] = tok
    THEN CHOOSE i \in DOMAIN toks : toks[i] = tok /\ \A j \in 1..(i - 1) : toks[j] # tok
    ELSE 0

Digit == [a \in {"0", "1", "2", "3", "4"} |->
            CASE a = "0" -> 0 [] a = "1" -> 1 [] a = "2" -> 2 [] a = "3" -> 3 [] a = "4" -> 4]

\* whether np.double(tok) / int(tok) succeeds on a token
IsNum(tok) == tok # <<>> /\ \A i \in DOMAIN tok : tok[i] \in DOMAIN Digit

RECURSIVE NumVal(_)
NumVal(tok) ==
  IF tok = <<>> THEN 0
  ELSE 10 * NumVal(SubSeq(tok, 1, Len(tok) - 1)) + Digit[tok[Len(tok)]]

\* the tokens of a list parse as numbers
AllNum(toks) == \A i \in DOMAIN toks : IsNum(toks[i])

RECURSIVE Join(_)
Join(toks) ==
  IF toks = <<>> THEN <<>>
  ELSE IF Len(toks) = 1 THEN toks[1]
  ELSE toks[1] \o <<"sp">> \o Join(Tail(toks))

Words(s) == [i \in DOMAIN s |-> <<s[i]>>]

\* a line of single-space separated tokens ending in a newline
Ln(toks) == Join(toks) \o <<"nl">>

\* the markers the constructor looks for
tallyname == <<"T">>
SCORE == <<"SCORE">>
END_SCORE == <<"END_", "SCORE">>
NAME == <<"NAME">>
EXTENDED_MESH == <<"EXTENDED_MESH">>
FRAME == <<"FRAME">>
CARTESIAN == <<"CARTESIAN">>
FRAME_CARTESIAN == <<"FRAME", "sp", "CARTESIAN">>
SCORE_NAME == <<"SCORE", "sp", "NAME", "sp", ":", "sp">>
Energy_range == <<"Energy", "sp", "range">>
FrameStops == <<NAME, END_SCORE, <<"//">>, <<"/*">>>>

\* tallyname+" " in line or tallyname+"\t" in line or tallyname+"\n" in line
NameMatch(line) ==
  \/ Contains(line, tallyname \o <<"sp">>)
  \/ Contains(line, tallyname \o <<"tab">>)
  \/ Contains(line, tallyname \o <<"nl">>)

\* ------------------------------------------------------- the input files
\* A spectrum CSV line is the list of its comma-separated fields; a field is
\* <<"n", v>> (np.double reads the number v) or <<"s", 0>> (it raises).
CsvLines ==
  { << <<"n", 100>>, <<"s", 0>>, <<"n", 5>> >>,
    << <<"n", 200>>, <<"s", 0>>, <<"n", 10>> >>,
    << <<"s", 0>>, <<"s", 0>> >>,
    << <<"n", 300>>, <<"s", 0>> >> }

RECURSIVE SeqsUpTo(_, _)
SeqsUpTo(S, n) ==
  IF n = 0 THEN {<<>>}
  ELSE LET P == SeqsUpTo(S, n - 1) IN P \cup {Append(p, x) : p \in P, x \in S}

\* every spectrum file of at most MaxCsv lines
CsvFiles == SeqsUpTo(CsvLines, MaxCsv)

\* a spectrum file of one line
CsvSample1 == << << <<"n", 100>>, <<"s", 0>>, <<"n", 5>> >> >>

\* the spectrum files the whole program is run on
CsvSamples ==
  { << << <<"n", 100>>, <<"s", 0>>, <<"n", 5>> >> >>,
    << << <<"s", 0>>, <<"s", 0>> >>,
       << <<"n", 100>>, <<"s", 0>>, <<"n", 5>> >>,
       << <<"n", 200>>, <<"s", 0>>, <<"n", 10>> >> >>,
    << << <<"n", 300>>, <<"s", 0>> >> >>,
    <<>> }

\* The lines an output file is made of.  The last line of a file may lack
\* its newline.
OutputLines ==
  { Ln(Words(<<"SCORE">>)),
    Ln(Words(<<"NAME", "T">>)),
    Ln(<<NAME, <<"x", "T">>>>),
    Ln(<<NAME, <<"T", "x">>>>),
    Join(Words(<<"NAME", "T">>)),
    Ln(Words(<<"EXTENDED_MESH", "h", "0", "0", "0", "4", "1", "1", "2", "1", "1">>)),
    Ln(Words(<<"FRAME", "CARTESIAN", "0", "0", "0", "1", "0", "0", "0", "1", "0", "0", "0", "1">>)),
    Ln(Words(<<"FRAME", "SPHERICAL">>)),
    Ln(<<END_SCORE>>),
    Ln(Words(<<"SCORE", "NAME", ":", "T">>)),
    Ln(<<SCORE, NAME, <<":">>, <<"T", "x">>>>),
    Ln(Words(<<"Energy", "range">>)),
    Ln(Words(<<"c", "3", "1">>)),
    Ln(Words(<<"c", "0", "0">>)),
    <<"nl">>,
    Ln(Words(<<"EXTENDED_MESH", "h", "0", "0", "0", "4", "1", "1", "2", "1", "1",
               "FRAME", "CARTESIAN", "0", "0", "0", "1", "0", "0", "0", "1", "0", "0", "0", "1">>)),
    Ln(<< <<"//", "x">> >>) }

EOF == <<"EOF">>

\* the source intensities J tried
Js == {RInt(1), RInt(2)}

\* ------------------------------------------------------------------ state
VARIABLES
  pc,       \* where the program is: "spectrum", a scan loop of __init__,
            \* "ready" (a constructed T4Tally), "failed" (an exception left)
  error,    \* the message of the exception raised, "" if none
  csv,      \* the spectrum argument: given or None, and its unread lines
  J,        \* self.J
  Es, Ews,  \* read_spectrum's Es and ws, then self.Es and self.Ews
  line,     \* __init__'s local `line`: the last line read
  idx,      \* __init__'s local `idx` (0-based, as in Python)
  buf,      \* __init__'s local `buf`
  nread,    \* lines of the output file read so far
  mins, maxs, Ns, grids, vcell,
  origin, dx1, dx2, dx3,
  I, err,   \* the locals I and err, then self.I and self.err (flat, row-major)
  report,   \* what __init__ printed
  named,    \* history of the scan in progress: a line read after the SCORE
            \* line held the tally name as a token
  endFirst, \* history of the scan in progress: END_SCORE was read after the
            \* SCORE line before any such line
  I0, err0, \* history: self.I and self.err as __init__ left them
  writer,   \* the calls made to savessv / appendssv / convert2mcpl, in order
  ret,      \* what the last method call returned
  nops,     \* method calls made so far
  geomplot, \* the argument geomplot, then self.geomplot
  file,     \* the handle of `with open(outputfile, "r") as file`
  image,    \* the file handle held by the image Im.open(geomplot) returned
  usable,   \* history: spectrum lines read with numeric fields 0 and 2
  tracks,   \* the batches of particles handed to appendssv, in order
  stream    \* history of the accumulation in progress: the tokens of the
            \* lines read from the EXTENDED_MESH line on (mesh), from the
            \* FRAME line on (frame)

vars == <<pc, error, csv, J, Es, Ews, line, idx, buf, nread, mins, maxs, Ns, grids,
          vcell, origin, dx1, dx2, dx3, I, err, report, named, endFirst, I0, err0,
          writer, ret, nops, geomplot, file, image, usable, tracks, stream>>

NoRet == [op |-> "", raised |-> "", fig |-> "", scores |-> <<>>, errs |-> <<>>, value |-> ""]

\* T4Tally(outputfile, "T", spectrum, geomplot, J) is entered, the spectrum
\* being None or one of `files`, the geometry graph one of `plots`
InitArgs(files, plots) ==
  /\ pc = "spectrum"
  /\ error = ""
  /\ csv \in {[given |-> FALSE, lines |-> <<>>]} \cup {[given |-> TRUE, lines |-> f] : f \in files}
  /\ J \in Js
  /\ Es = <<>> /\ Ews = <<>>
  /\ line = <<>> /\ idx = 0 /\ buf = <<>> /\ nread = 0
  /\ mins = <<>> /\ maxs = <<>> /\ Ns = <<>> /\ grids = <<>> /\ vcell = <<>>
  /\ origin = <<>> /\ dx1 = <<>> /\ dx2 = <<>> /\ dx3 = <<>>
  /\ I = <<>> /\ err = <<>>
  /\ report = ""
  /\ named = FALSE /\ endFirst = FALSE
  /\ I0 = <<>> /\ err0 = <<>>
  /\ writer = <<>> /\ ret = NoRet /\ nops = 0
  /\ geomplot \in plots
  /\ file = "unopened" /\ image = "unopened"
  /\ usable = 0
  /\ tracks = <<>>
  /\ stream = <<>>

\* T4Tally(outputfile, "T", spectrum, J=J): no geometry graph
InitWith(files) == InitArgs(files, {"None"})

Init == InitWith(CsvSamples)

\* the constructor alone, with and without a geometry graph
InitGeomplot == InitArgs({CsvSample1}, {"None", "image"})

InitSpectrum == InitWith(CsvFiles)

\* ----------------------------------------------------------- read_spectrum
\* One pass of the loop body: try: Es.append(double(line[0])/1000);
\* ws.append(double(line[2])) except: pass.  Returns the lists <<Es, ws>>.
SpectrumLine(es, ws, l) ==
  IF l[1][1] # "n" THEN <<es, ws>>
  ELSE LET es1 == Append(es, Rat(l[1][2], 1000)) IN
       IF Len(l) >= 3 /\ l[3][1] = "n"
         THEN <<es1, Append(ws, RInt(l[3][2]))>>
         ELSE <<es1, ws>>

\* The checks after the loop; "" when read_spectrum returns [Es, ws].
SpectrumCheck(given, es, ws) ==
  IF given /\ Len(es) = 0 THEN "Empty decay spectrum."
  ELSE IF Len(es) # Len(ws) THEN "Invalid decay spectrum format."
  ELSE ""

ParseVars == <<line, idx, buf, nread, mins, maxs, Ns, grids, vcell, origin, dx1, dx2,
               dx3, I, err, report, named, endFirst, stream>>
TallyUse == <<I0, err0, writer, ret, nops, tracks>>
Handles == <<geomplot, file, image>>

\* a spectrum line with a numeric field 0 and a numeric field 2
WellFormed(l) == l[1][1] = "n" /\ Len(l) >= 3 /\ l[3][1] = "n"

ReadSpectrumLine ==
  /\ pc = "spectrum" /\ csv.given /\ csv.lines # <<>>
  /\ LET r == SpectrumLine(Es, Ews, Head(csv.lines)) IN
       Es' = r[1] /\ Ews' = r[2]
  /\ csv' = [csv EXCEPT !.lines = Tail(csv.lines)]
  /\ usable' = usable + (IF WellFormed(Head(csv.lines)) THEN 1 ELSE 0)
  /\ UNCHANGED <<pc, error, J, ParseVars, TallyUse, Handles>>

ReadSpectrumEnd ==
  /\ pc = "spectrum" /\ (csv.given => csv.lines = <<>>)
  /\ LET e == SpectrumCheck(csv.given, Es, Ews) IN
       /\ error' = e
       /\ pc' = IF e = "" THEN "geomplot" ELSE "failed"
  /\ UNCHANGED <<csv, J, Es, Ews, ParseVars, TallyUse, Handles, usable>>

\* lines 96-100: the geometry graph is loaded, if one is given, and the output
\* file is opened.  Im.open(geomplot) opens the image file; the code drops the
\* image without close() and without a with block, so whether the handle is
\* closed by then rests with the imaging library (closed once the pixels are
\* loaded, or kept open until the object is collected).
ReadGeomplot ==
  /\ pc = "geomplot"
  /\ IF geomplot = "None"
       THEN geomplot' = "None" /\ image' = image
       ELSE geomplot' = "array" /\ image' \in {"closed", "open"}
  /\ file' = "open"
  /\ pc' = "score"
  /\ UNCHANGED <<error, csv, J, Es, Ews, ParseVars, TallyUse, usable>>

\* ------------------------------------------------------- T4Tally.__init__
\* The constructor's locals and the attributes it sets, as one record.
Cur ==
  [pc |-> pc, error |-> error, line |-> line, idx |-> idx, buf |-> buf,
   mins |-> mins, maxs |-> maxs, Ns |-> Ns, grids |-> grids, vcell |-> vcell,
   origin |-> origin, dx1 |-> dx1, dx2 |-> dx2, dx3 |-> dx3,
   I |-> I, err |-> err, report |-> report]

Raise(r, msg) == [r EXCEPT !.pc = "failed", !.error = msg]

\* toks[:n] and toks[n:] with Python's 0-based n
Take(toks, n) == SubSeq(toks, 1, IF n < Len(toks) THEN n ELSE Len(toks))
Drop(toks, n) == SubSeq(toks, n + 1, Len(toks))

Doubles(toks) == [i \in DOMAIN toks |-> RInt(NumVal(toks[i]))]
Ints(toks) == [i \in DOMAIN toks |-> NumVal(toks[i])]

\* np.linspace(a, b, n + 1)
Linspace(a, b, n) ==
  IF n = 0 THEN <<a>>
  ELSE [k \in 1..(n + 1) |-> RAdd(a, RDiv(RMul(RAdd(b, RMul(RInt(-1), a)), RInt(k - 1)), RInt(n)))]

RAbs(p) == <<Abs(p[1]), p[2]>>
RSub(p, q) == RAdd(p, RMul(RInt(-1), q))

\* np.reshape(I, Ns) succeeds, and the division by self.vcell
Density(vals, vc) == [i \in DOMAIN vals |-> RDiv(vals[i], vc)]

\* lines 181-186: the report, the reshape and the division by the cell volume
Finish(r) ==
  LET full == Len(r.I) = Prod(r.Ns)
      r1 == [r EXCEPT !.report = IF full THEN "successfully read" ELSE "reading incomplete"]
  IN  IF ~full THEN Raise(r1, "ValueError: cannot reshape array")
      ELSE [r1 EXCEPT !.pc = "ready", !.I = Density(r.I, r.vcell),
                      !.err = Density(r.err, r.vcell),
                      !.line = <<>>, !.idx = 0, !.buf = <<>>]

\* lines 175-180: one pass of the result-row loop
RowBody(r, l) ==
  LET toks == Split(l) IN
  IF Len(toks) = 0 THEN Finish([r EXCEPT !.line = l])
  ELSE IF Len(toks) < 2 THEN Raise([r EXCEPT !.line = l], "IndexError: list index out of range")
  ELSE IF ~IsNum(toks[2]) THEN Raise([r EXCEPT !.line = l], "ValueError: could not convert string to float")
  ELSE LET r1 == [r EXCEPT !.line = l, !.I = Append(r.I, RInt(NumVal(toks[2])))] IN
       IF Len(toks) < 3 THEN Raise(r1, "IndexError: list index out of range")
       ELSE IF ~IsNum(toks[3]) THEN Raise(r1, "ValueError: could not convert string to float")
       ELSE [r1 EXCEPT !.err = Append(r.err, RInt(NumVal(toks[3])))]

\* lines 172-174 left, the row loop entered: at end of file it runs no pass
AfterEnergy(r, eof) == IF eof THEN Finish(r) ELSE [r EXCEPT !.pc = "rows"]

\* lines 167-171 left by break
AfterResults(r) == [r EXCEPT !.pc = "energy"]

\* lines 157-166: the frame loop left (break or end of file), then the
\* result-section scan entered
AfterFrame(r, eof) ==
  LET b == r.buf \o Take(Split(r.line), r.idx)
      r1 == [r EXCEPT !.buf = b]
  IN  IF Len(b) # FrameTokens THEN Raise(r1, "Could not read FRAME CARTESIAN.")
      ELSE IF ~AllNum(b) THEN Raise(r1, "ValueError: could not convert string to float")
      ELSE LET r2 == [r1 EXCEPT !.origin = Doubles(SubSeq(b, 1, 3)),
                                !.dx1 = Doubles(SubSeq(b, 4, 6)),
                                !.dx2 = Doubles(SubSeq(b, 7, 9)),
                                !.dx3 = Doubles(SubSeq(b, 10, 12)),
                                !.I = <<>>, !.err = <<>>]
           IN  IF eof THEN Raise(r2, "Tally results not found.")
               ELSE [r2 EXCEPT !.pc = "results"]

\* lines 146-155: the searches that are in the line, and the least token index
\* among them; -1 stands for the ValueError of line.split().index(search)
StopsIn(l) == {k \in DOMAIN FrameStops : Contains(l, FrameStops[k])}
StopIdx(l) ==
  LET toks == Split(l)
      at == {Index(toks, FrameStops[k]) : k \in StopsIn(l)}
  IN  IF 0 \in at THEN -1
      ELSE (CHOOSE m \in at : \A n \in at : m <= n) - 1

\* the mutant of FrameSupported: any FRAME line is taken for a Cartesian frame
FrameSupportedAnyFrame(l) == Contains(l, FRAME)

\* line 140: "FRAME CARTESIAN" in line
FrameSupported(l) == Contains(l, FRAME_CARTESIAN)

\* lines 127-144: the mesh loop left, the mesh and the frame header read, the
\* frame loop entered
AfterMeshAcc(r, eof) ==
  LET toks == Split(r.line)
      i == Index(toks, FRAME)
  IN
  IF i = 0 THEN Raise(r, "ValueError: 'FRAME' is not in list")
  ELSE
  LET b == r.buf \o Take(toks, i - 1)
      r1 == [r EXCEPT !.idx = i - 1, !.buf = b]
  IN
  IF Len(b) # MeshTokens THEN Raise(r1, "Could not read EXTENDED_MESH.")
  ELSE IF ~AllNum(SubSeq(b, 2, 7)) THEN Raise(r1, "ValueError: could not convert string to float")
  ELSE IF ~AllNum(SubSeq(b, 8, 10)) THEN Raise(r1, "ValueError: invalid literal for int()")
  ELSE
  LET mn == Doubles(SubSeq(b, 2, 4))
      mx == Doubles(SubSeq(b, 5, 7))
      ns == Ints(SubSeq(b, 8, 10))
      g == [a \in 1..3 |-> Linspace(mn[a], mx[a], ns[a])]
      r2 == [r1 EXCEPT !.mins = mn, !.maxs = mx, !.Ns = ns, !.grids = g]
  IN
  IF \E a \in 1..3 : ns[a] = 0 THEN Raise(r2, "IndexError: index 1 is out of bounds")
  ELSE
  LET vc == RAbs(RMul(RMul(RSub(g[1][2], g[1][1]), RSub(g[2][2], g[2][1])),
                      RSub(g[3][2], g[3][1])))
      r3 == [r2 EXCEPT !.vcell = vc]
      c == Index(toks, CARTESIAN)
  IN
  IF ~FrameSupported(r.line) THEN Raise(r3, "Tally must have FRAME CARTESIAN.")
  ELSE IF c = 0 THEN Raise([r3 EXCEPT !.buf = <<>>], "ValueError: 'CARTESIAN' is not in list")
  ELSE LET r4 == [r3 EXCEPT !.idx = c - 1, !.buf = Drop(toks, c)] IN
       IF eof THEN AfterFrame(r4, TRUE) ELSE [r4 EXCEPT !.pc = "frame"]

\* lines 119-122: the mesh scan left, the accumulation loop entered
AfterMesh(r, eof) ==
  LET toks == Split(r.line)
      i == Index(toks, EXTENDED_MESH)
  IN  IF i = 0 THEN Raise([r EXCEPT !.buf = <<>>], "ValueError: 'EXTENDED_MESH' is not in list")
      ELSE LET r1 == [r EXCEPT !.idx = i - 1, !.buf = Drop(toks, i)] IN
           IF eof THEN AfterMeshAcc(r1, TRUE) ELSE [r1 EXCEPT !.pc = "meshacc"]

\* lines 108-112 left: the mesh scan entered; at end of file it runs no pass
AfterDef(r, eof) == IF eof THEN AfterMesh(r, TRUE) ELSE [r EXCEPT !.pc = "mesh"]

\* lines 102-106: one pass of the SCORE scan, or its else clause at end of file
ScoreBody(r, inp) ==
  IF inp = EOF THEN Raise(r, "No SCORE block in outputfile.")
  ELSE LET r1 == [r EXCEPT !.line = inp] IN
       IF Contains(inp, SCORE) THEN [r1 EXCEPT !.pc = "def"] ELSE r1

\* lines 108-112: one pass of the tally-definition scan
DefBody(r, inp) ==
  IF inp = EOF THEN AfterDef(r, TRUE)
  ELSE LET r1 == [r EXCEPT !.line = inp] IN
       IF NameMatch(inp) THEN AfterDef(r1, FALSE)
       ELSE IF Contains(inp, END_SCORE) THEN Raise(r1, "Tally T definition not found.")
       ELSE r1

\* lines 114-118: one pass of the mesh scan
MeshBody(r, inp) ==
  IF inp = EOF THEN AfterMesh(r, TRUE)
  ELSE LET r1 == [r EXCEPT !.line = inp] IN
       IF Contains(inp, EXTENDED_MESH) THEN AfterMesh(r1, FALSE)
       ELSE IF Contains(inp, NAME) \/ Contains(inp, END_SCORE)
         THEN Raise(r1, "EXTENDED_MESH not found.")
       ELSE r1

\* lines 123-126: one pass of the mesh-token accumulation
MeshAccBody(r, inp) ==
  IF inp = EOF THEN AfterMeshAcc(r, TRUE)
  ELSE LET r1 == [r EXCEPT !.line = inp] IN
       IF Contains(inp, FRAME) THEN AfterMeshAcc(r1, FALSE)
       ELSE [r1 EXCEPT !.buf = r.buf \o Split(inp)]

\* lines 145-156: one pass of the frame-token accumulation
FrameBody(r, inp) ==
  IF inp = EOF THEN AfterFrame(r, TRUE)
  ELSE LET r1 == [r EXCEPT !.line = inp] IN
       IF StopsIn(inp) # {}
         THEN IF StopIdx(inp) = -1
                THEN Raise(r1, "ValueError: search is not in list")
                ELSE AfterFrame([r1 EXCEPT !.idx = StopIdx(inp)], FALSE)
         ELSE [r1 EXCEPT !.buf = r.buf \o Split(inp)]

\* lines 167-171: one pass of the result-section scan, or its else clause
ResultsBody(r, inp) ==
  IF inp = EOF THEN Raise(r, "Tally results not found.")
  ELSE LET r1 == [r EXCEPT !.line = inp] IN
       IF Contains(inp, SCORE_NAME \o tallyname) THEN AfterResults(r1) ELSE r1

\* lines 172-174: one pass of the "Energy range" scan
EnergyBody(r, inp) ==
  IF inp = EOF THEN AfterEnergy(r, TRUE)
  ELSE LET r1 == [r EXCEPT !.line = inp] IN
       IF Contains(inp, Energy_range) THEN AfterEnergy(r1, FALSE) ELSE r1

\* lines 175-180: one pass of the row loop; the loop ends at end of file too
RowsBody(r, inp) == IF inp = EOF THEN Finish(r) ELSE RowBody(r, inp)

\* the name is one of the whitespace-separated tokens of the line
HasToken(l, tok) == \E i \in DOMAIN Split(l) : Split(l)[i] = tok

\* What `for line in file` can yield next: a line, if the file is not over the
\* bound and the last line read ended in a newline, or the end of the file.
Inputs(more) ==
  {EOF} \cup
  (IF more /\ nread < MaxLines /\ (nread = 0 \/ line[Len(line)] = "nl")
     THEN OutputLines ELSE {})

\* The constructor moves to r on input inp.
Step(r, inp) ==
  /\ pc' = r.pc /\ error' = r.error /\ line' = r.line /\ idx' = r.idx /\ buf' = r.buf
  /\ mins' = r.mins /\ maxs' = r.maxs /\ Ns' = r.Ns /\ grids' = r.grids
  /\ vcell' = r.vcell /\ origin' = r.origin /\ dx1' = r.dx1 /\ dx2' = r.dx2
  /\ dx3' = r.dx3 /\ I' = r.I /\ err' = r.err /\ report' = r.report
  /\ nread' = IF r.pc = "ready" THEN 0 ELSE IF inp = EOF THEN nread ELSE nread + 1
  /\ named' = (r.pc # "ready" /\
                (named \/ (pc # "score" /\ inp # EOF /\ HasToken(inp, tallyname))))
  /\ endFirst' = (r.pc # "ready" /\
                   (endFirst \/ (pc # "score" /\ inp # EOF /\ ~named
                                  /\ ~HasToken(inp, tallyname) /\ Contains(inp, END_SCORE))))
  /\ I0' = IF r.pc = "ready" THEN r.I ELSE I0
  /\ err0' = IF r.pc = "ready" THEN r.err ELSE err0
  /\ file' = IF r.pc \in {"ready", "failed"} THEN "closed" ELSE file
  /\ stream' = IF r.pc \notin {"meshacc", "frame"} THEN <<>>
               ELSE IF r.pc = pc THEN stream \o Split(inp)
               ELSE Split(inp)
  /\ UNCHANGED <<csv, J, Es, Ews, writer, ret, nops, geomplot, image, usable, tracks>>

ScanScore == pc = "score" /\ \E inp \in Inputs(TRUE) : Step(ScoreBody(Cur, inp), inp)
ScanDef == pc = "def" /\ \E inp \in Inputs(TRUE) : Step(DefBody(Cur, inp), inp)
ScanMesh == pc = "mesh" /\ \E inp \in Inputs(TRUE) : Step(MeshBody(Cur, inp), inp)
ReadMesh ==
  pc = "meshacc" /\ \E inp \in Inputs(Len(buf) <= MeshTokens + MaxExtra) : Step(MeshAccBody(Cur, inp), inp)
ReadFrame ==
  pc = "frame" /\ \E inp \in Inputs(Len(buf) <= FrameTokens + MaxExtra) : Step(FrameBody(Cur, inp), inp)
ScanResults == pc = "results" /\ \E inp \in Inputs(TRUE) : Step(ResultsBody(Cur, inp), inp)
ScanEnergy == pc = "energy" /\ \E inp \in Inputs(TRUE) : Step(EnergyBody(Cur, inp), inp)
ReadRows == pc = "rows" /\ \E inp \in Inputs(TRUE) : Step(RowsBody(Cur, inp), inp)

Construct ==
  \/ ReadSpectrumLine \/ ReadSpectrumEnd \/ ReadGeomplot
  \/ ScanScore \/ ScanDef \/ ScanMesh \/ ReadMesh \/ ReadFrame
  \/ ScanResults \/ ScanEnergy \/ ReadRows


\* ------------------------------------------------------- T4Tally methods
\* the attributes __init__ sets on self
TallyAttrs ==
  {"J", "folder", "outputfile", "tallyname", "Es", "Ews", "geomplot", "grids",
   "vcell", "origin", "dx1", "dx2", "dx3", "I", "err"}

\* position in the flat arrays of the cell with 0-based indices ix
Flat(ix) == (ix[1] * Ns[2] + ix[2]) * Ns[3] + ix[3] + 1

\* the list s with x inserted at 0-based position p: list.insert(p, x)
InsertAt(s, p, x) == SubSeq(s, 1, p) \o <<x>> \o SubSeq(s, p + 1, Len(s))

\* the other axes, ascending: vrs = [0,1,2]; vrs.remove(var)
Others(var) == IF var = 0 THEN <<1, 2>> ELSE IF var = 1 THEN <<0, 2>> ELSE <<0, 1>>

Range(n) == 0..(n - 1)

\* arr with the elements at the flat positions `at` multiplied by q: an
\* in-place `view *= q` where the view covers those positions
Scaled(arr, at, q) == [i \in DOMAIN arr |-> IF i \in at THEN RMul(arr[i], q) ELSE arr[i]]

\* A statistical error is kept as <<rad, coef>>, standing for sqrt(rad) * coef.
ErrOf(q) == <<RInt(1), q>>
ErrMul(e, q) == <<e[1], RMul(e[2], q)>>

RECURSIVE SumOver(_, _)
SumOver(f, S) ==
  IF S = {} THEN RInt(0)
  ELSE LET x == CHOOSE x \in S : TRUE IN RAdd(f[x], SumOver(f, S \ {x}))

Sq(arr) == [i \in DOMAIN arr |-> RMul(arr[i], arr[i])]

\* what the kwarg "fact" does to a sequence of values, when given
ApplyFact(vals, fact) ==
  IF fact = <<>> THEN vals ELSE [i \in DOMAIN vals |-> RMul(vals[i], fact[1])]
ApplyFactErr(es, fact) ==
  IF fact = <<>> THEN es ELSE [i \in DOMAIN es |-> ErrMul(es[i], fact[1])]

\* lines 275-314, plot(var, cells, fact=...): the arrays self.I and self.err
\* it leaves and what it returns.  cells.fixed is FALSE for cells=None.
Plot(var, cells, fact) ==
  LET o == Others(var)
      n == Ns[var + 1]
  IN
  IF ~cells.fixed
    THEN \* lines 282-283: np.mean and np.sqrt(np.sum(..)) make new arrays
      LET grp(t) == {Flat(InsertAt(<<a, b>>, var, t)) :
                       a \in Range(Ns[o[1] + 1]), b \in Range(Ns[o[2] + 1])}
          cnt == Ns[o[1] + 1] * Ns[o[2] + 1]
          sc == [t \in 1..n |-> RMul(RDiv(SumOver(I, grp(t - 1)), RInt(cnt)), J)]
          er == [t \in 1..n |->
                   <<SumOver(Sq(err), grp(t - 1)), RMul(RDiv(RInt(1), RInt(cnt)), J)>>]
          zero == RSum(sc) = RInt(0)
      IN  [I |-> I, err |-> err,
           ret |-> [op |-> "plot", raised |-> "", fig |-> IF zero THEN "None" ELSE "figure",
                    scores |-> IF zero THEN sc ELSE ApplyFact(sc, fact),
                    errs |-> IF zero THEN er ELSE ApplyFactErr(er, fact), value |-> ""]]
    ELSE \* lines 285-288: basic indexing, scores and errs are views of the arrays
      LET at == [t \in 1..n |-> Flat(InsertAt(cells.at, var, t - 1))]
          pos == {at[t] : t \in 1..n}
          I1 == Scaled(I, pos, J)
          e1 == Scaled(err, pos, J)
          zero == RSum([t \in 1..n |-> I1[at[t]]]) = RInt(0)
          I2 == IF zero \/ fact = <<>> THEN I1 ELSE Scaled(I1, pos, fact[1])
          e2 == IF zero \/ fact = <<>> THEN e1 ELSE Scaled(e1, pos, fact[1])
      IN  [I |-> I2, err |-> e2,
           ret |-> [op |-> "plot", raised |-> "", fig |-> IF zero THEN "None" ELSE "figure",
                    scores |-> [t \in 1..n |-> I2[at[t]]],
                    errs |-> [t \in 1..n |-> ErrOf(e2[at[t]])], value |-> ""]]

\* np.transpose and np.rot90 of a 2D array kept as the sequence of its rows
Transpose(m) == [j \in 1..Len(m[1]) |-> [i \in 1..Len(m) |-> m[i][j]]]
Rot90(m) ==
  LET C == Len(m[1]) IN [i \in 1..C |-> [j \in 1..Len(m) |-> m[j][C + 1 - i]]]

\* lines 368-372
Orient(m, vrs) == Rot90(IF vrs[1] > vrs[2] THEN Transpose(m) ELSE m)

\* the third axis: var = [0,1,2] less vrs[0] and vrs[1]
Third(vrs) == CHOOSE v \in 0..2 : v # vrs[1] /\ v # vrs[2]

\* lines 345-397, plot2D(vrs, cell, fact=...).  cell.fixed is FALSE for cell=None.
Plot2D(vrs, cell, fact) ==
  LET var == Third(vrs)
      o == Others(var)
      R == Ns[o[1] + 1]
      C == Ns[o[2] + 1]
  IN
  IF ~cell.fixed
    THEN
      LET grp(a, b) == {Flat(InsertAt(<<a, b>>, var, t)) : t \in Range(Ns[var + 1])}
          cnt == Ns[var + 1]
          sc == [a \in 1..R |-> [b \in 1..C |->
                   RMul(RDiv(SumOver(I, grp(a - 1, b - 1)), RInt(cnt)), J)]]
          er == [a \in 1..R |-> [b \in 1..C |->
                   <<SumOver(Sq(err), grp(a - 1, b - 1)), RMul(RDiv(RInt(1), RInt(cnt)), J)>>]]
          zero == RSum([a \in 1..R |-> RSum(sc[a])]) = RInt(0)
      IN  [I |-> I, err |-> err,
           ret |-> [op |-> "plot2D", raised |-> "", fig |-> IF zero THEN "None" ELSE "figure",
                    scores |-> IF zero THEN sc
                               ELSE Orient([a \in 1..R |-> ApplyFact(sc[a], fact)], vrs),
                    errs |-> IF zero THEN er
                             ELSE Orient([a \in 1..R |-> ApplyFactErr(er[a], fact)], vrs),
                    value |-> ""]]
    ELSE
      LET at == [a \in 1..R |-> [b \in 1..C |-> Flat(InsertAt(<<a - 1, b - 1>>, var, cell.at))]]
          pos == {at[a][b] : a \in 1..R, b \in 1..C}
          I1 == Scaled(I, pos, J)
          e1 == Scaled(err, pos, J)
          zero == SumOver(I1, pos) = RInt(0)
          I2 == IF zero \/ fact = <<>> THEN I1 ELSE Scaled(I1, pos, fact[1])
          e2 == IF zero \/ fact = <<>> THEN e1 ELSE Scaled(e1, pos, fact[1])
          sc == [a \in 1..R |-> [b \in 1..C |-> I2[at[a][b]]]]
          er == [a \in 1..R |-> [b \in 1..C |-> ErrOf(e2[at[a][b]])]]
      IN  [I |-> I2, err |-> e2,
           ret |-> [op |-> "plot2D", raised |-> "", fig |-> IF zero THEN "None" ELSE "figure",
                    scores |-> IF zero THEN sc ELSE Orient(sc, vrs),
                    errs |-> IF zero THEN er ELSE Orient(er, vrs), value |-> ""]]

\* the flat positions of the cells with a positive tally value: pos_ws > 0
Positive(arr) == {i \in DOMAIN arr : RPos(arr[i])}

Repeat(x, n) == [i \in 1..n |-> x]

\* the writer calls of lines 232-242 for N positions and L spectrum lines
WriterCalls(N, L) ==
  <<[call |-> "savessv", n |-> 0]>>
  \o Repeat([call |-> "appendssv", n |-> N], L)
  \o <<[call |-> "convert2mcpl", n |-> 0]>>

Raised(op, msg) == [NoRet EXCEPT !.op = op, !.raised = msg]

\* the 0-based cell indices of the flat position i (row-major)
Unflat(i) ==
  LET j == i - 1 IN <<j \div (Ns[2] * Ns[3]), (j \div Ns[3]) % Ns[2], j % Ns[3]>>

\* line 215: (grid[:-1]+grid[1:])/2 at 0-based index k
Mid(grid, k) == RDiv(RAdd(grid[k + 1], grid[k + 2]), RInt(2))

\* line 216: the centre of the cell at flat position i
Centre(i) == [a \in 1..3 |-> Mid(grids[a], Unflat(i)[a])]

\* the elements of a set of integers in ascending order: arr[mask]
RECURSIVE Ascending(_)
Ascending(S) ==
  IF S = {} THEN <<>>
  ELSE LET m == CHOOSE m \in S : \A n \in S : m <= n IN <<m>> \o Ascending(S \ {m})

\* arr /= arr.mean()
Mean(arr) == RDiv(RSum(arr), RInt(Len(arr)))
Normalized(arr) ==
  IF arr = <<>> THEN <<>> ELSE [i \in DOMAIN arr |-> RDiv(arr[i], Mean(arr))]

\* np.tile(arr, n)
Tile(arr, n) == [j \in 1..(Len(arr) * n) |-> arr[((j - 1) % Len(arr)) + 1]]

\* int(np.ceil(a/b))
Ceil(a, b) == (a + b - 1) \div b

\* arr[a:b] with Python's 0-based bounds, cut at the end of arr
Slice(arr, a, b) == SubSeq(arr, a + 1, IF b < Len(arr) THEN b ELSE Len(arr))

\* the permutations np.random.shuffle can leave a list of n rows in
Perms(n) == {p \in [1..n -> 1..n] : \A a, b \in 1..n : p[a] = p[b] => a = b}

\* lines 214-241: the batches handed to appendssv when the rows of parts are
\* left in the order perm, one batch per spectrum energy.  A record is the
\* position, the energy and the weight of a particle (the random directions
\* are left out); <<>> stands for the ValueError of parts[:,0] = Es[i:i+N]
\* when a slice is shorter than N.
Batches(perm, E_ws) ==
  LET cells == Ascending(Positive(I))
      poss == [k \in DOMAIN cells |-> Centre(cells[k])]
      pos_ws == Normalized([k \in DOMAIN cells |-> I[cells[k]]])
      N == Len(poss)
      parts == [k \in 1..N |-> poss[perm[k]]]
      nloops == Ceil(N, Len(Es)) + 1
      EsT == Tile(Es, nloops)
      E_wsT == Normalized(Tile(E_ws, nloops))
  IN  IF \E i \in 0..(Len(Es) - 1) : Len(Slice(EsT, i, i + N)) # N THEN <<>>
      ELSE [p \in 1..Len(Es) |->
              [k \in 1..N |->
                 [pos |-> parts[k],
                  E |-> Slice(EsT, p - 1, p - 1 + N)[k],
                  w |-> RMul(pos_ws[k], Slice(E_wsT, p - 1, p - 1 + N)[k])]]]

\* the mutant of SaveTracks: the spectrum is checked after the header is written
SaveTracksLateCheck(perm) ==
  IF Len(Es) = 0
    THEN [writer |-> <<[call |-> "savessv", n |-> 0]>>, tracks |-> <<>>,
          ret |-> Raised("save_tracks", "No decay spectrum.")]
  ELSE [writer |-> <<>>, tracks |-> <<>>,
        ret |-> Raised("save_tracks", "AttributeError: 'T4Tally' object has no attribute 'E_ws'")]

\* lines 209-244, save_tracks(): the calls it makes to the writer, the
\* batches it hands to appendssv and what it returns or raises
SaveTracks(perm) ==
  IF Len(Es) = 0
    THEN [writer |-> <<>>, tracks |-> <<>>,
          ret |-> Raised("save_tracks", "No decay spectrum.")]
  ELSE IF "E_ws" \notin TallyAttrs
    THEN \* line 229 reads self.E_ws, which __init__ (line 94) never sets
         [writer |-> <<>>, tracks |-> <<>>,
          ret |-> Raised("save_tracks", "AttributeError: 'T4Tally' object has no attribute 'E_ws'")]
  ELSE IF Batches(perm, Ews) = <<>>
    THEN [writer |-> <<[call |-> "savessv", n |-> 0]>>, tracks |-> <<>>,
          ret |-> Raised("save_tracks", "ValueError: could not broadcast input array")]
  ELSE [writer |-> WriterCalls(Cardinality(Positive(I)), Len(Es)),
        tracks |-> Batches(perm, Ews),
        ret |-> [NoRet EXCEPT !.op = "save_tracks", !.value = "mcplname"]]

\* the arguments the methods are called with
Facts == {<<>>, <<RInt(2)>>}
CellsFor(var) ==
  {[fixed |-> FALSE, at |-> <<>>]} \cup
  {[fixed |-> TRUE, at |-> <<a, b>>] :
     a \in Range(Ns[Others(var)[1] + 1]), b \in Range(Ns[Others(var)[2] + 1])}
Pairs == {v \in (0..2) \X (0..2) : v[1] # v[2]}
CellFor(vrs) ==
  {[fixed |-> FALSE, at |-> 0]} \cup {[fixed |-> TRUE, at |-> c] : c \in Range(Ns[Third(vrs) + 1])}

CallPlot ==
  /\ pc = "ready" /\ nops < MaxOps
  /\ \E var \in 0..2 : \E cells \in CellsFor(var) : \E fact \in Facts :
       LET r == Plot(var, cells, fact) IN
         /\ I' = r.I /\ err' = r.err /\ ret' = r.ret
  /\ nops' = nops + 1
  /\ UNCHANGED <<pc, error, csv, J, Es, Ews, line, idx, buf, nread, mins, maxs, Ns,
                 grids, vcell, origin, dx1, dx2, dx3, report, named, endFirst, I0,
                 err0, writer, Handles, usable, tracks, stream>>

CallPlot2D ==
  /\ pc = "ready" /\ nops < MaxOps
  /\ \E vrs \in Pairs : \E cell \in CellFor(vrs) : \E fact \in Facts :
       LET r == Plot2D(vrs, cell, fact) IN
         /\ I' = r.I /\ err' = r.err /\ ret' = r.ret
  /\ nops' = nops + 1
  /\ UNCHANGED <<pc, error, csv, J, Es, Ews, line, idx, buf, nread, mins, maxs, Ns,
                 grids, vcell, origin, dx1, dx2, dx3, report, named, endFirst, I0,
                 err0, writer, Handles, usable, tracks, stream>>

CallSaveTracks ==
  /\ pc = "ready" /\ nops < MaxOps
  /\ \E perm \in Perms(Cardinality(Positive(I))) :
       LET r == SaveTracks(perm) IN
         writer' = writer \o r.writer /\ tracks' = tracks \o r.tracks /\ ret' = r.ret
  /\ nops' = nops + 1
  /\ UNCHANGED <<pc, error, csv, J, Es, Ews, ParseVars, I0, err0, Handles, usable>>

Next == Construct \/ CallPlot \/ CallPlot2D \/ CallSaveTracks

Spec == Init /\ [][Next]_vars

\* read_spectrum alone, on every spectrum file within the bound
NextSpectrum == ReadSpectrumLine \/ ReadSpectrumEnd

SpecSpectrum == InitSpectrum /\ [][NextSpectrum]_vars

\* the constructor alone, called with and without a geometry graph
SpecGeomplot == InitGeomplot /\ [][Construct]_vars

\* ================================================================ claims
\* the messages of the exceptions the constructor raises itself
ParseErrors ==
  {"No SCORE block in outputfile.", "Tally T definition not found.",
   "EXTENDED_MESH not found.", "Could not read EXTENDED_MESH.",
   "Tally must have FRAME CARTESIAN.", "Could not read FRAME CARTESIAN.",
   "Tally results not found."}
\* the two that say the mesh type is not supported
UnsupportedMesh == {"EXTENDED_MESH not found.", "Tally must have FRAME CARTESIAN."}

\* the constructor reads a line in this step / meets the end of the file in it
ReadsLine == nread' = nread + 1
MeetsEof == nread' = nread /\ pc' # pc
\* this step is a call of save_tracks
SaveStep == pc = "ready" /\ nops' = nops + 1 /\ ret'.op = "save_tracks"

\* C1: when the row loop has read at least one row and the number of rows
\* differs from N1*N2*N3, the incomplete read is reported and the constructor
\* still returns a Tally whose value and error arrays have N1*N2*N3 cells.
C1_IncompleteReadNonFatal ==
  (report = "reading incomplete" /\ Len(I) >= 1)
    => (pc = "ready" /\ Len(I) = Prod(Ns) /\ Len(err) = Prod(Ns))

\* C2: read_spectrum takes from each well-formed line the pair
\* (field0/1000, field2), takes nothing from any other line, keeps the two
\* lists equally long and never raises the format error.
C2_MalformedLineSkipped ==
  [][(pc = "spectrum" /\ csv.given) =>
       /\ csv.lines # <<>> =>
            LET l == Head(csv.lines) IN
              IF WellFormed(l)
                THEN Es' = Append(Es, Rat(l[1][2], 1000)) /\ Ews' = Append(Ews, RInt(l[3][2]))
                ELSE Es' = Es /\ Ews' = Ews
       /\ Len(Es') = Len(Ews')
       /\ error' # "Invalid decay spectrum format."]_vars

\* C3: the definition scan stops at a line exactly when the line holds the
\* tally name as a whitespace-delimited token.
C3_NameMatchExact ==
  [][(pc = "def" /\ ReadsLine) => (pc' = "mesh" <=> HasToken(line', tallyname))]_vars

\* C4: when END_SCORE is read after the SCORE line before any line naming the
\* tally, the constructor has failed with "definition not found".
C4_MissingTallyRejected ==
  endFirst => (pc = "failed" /\ error = "Tally T definition not found.")

\* steps 4 and 5 succeed on the tokens accumulated when line l ends the
\* accumulation into b: FRAME is a token, there are exactly 10 tokens, the
\* bounds and counts are numbers, no count is zero
MeshReadable(b, l) ==
  /\ HasToken(l, FRAME)
  /\ LET t == b \o Take(Split(l), Index(Split(l), FRAME) - 1) IN
       /\ Len(t) = MeshTokens
       /\ AllNum(SubSeq(t, 2, 10))
       /\ \A a \in 8..10 : NumVal(t[a]) > 0

\* in the mesh scan a line with NAME or END_SCORE and without EXTENDED_MESH is
\* read / the line read ends the accumulation and lacks "FRAME CARTESIAN"
MeshMissing ==
  /\ pc = "mesh" /\ ReadsLine /\ ~Contains(line', EXTENDED_MESH)
  /\ (Contains(line', NAME) \/ Contains(line', END_SCORE))
FrameUnsupported ==
  /\ pc = "meshacc" /\ ReadsLine /\ Contains(line', FRAME)
  /\ ~Contains(line', FRAME_CARTESIAN)

\* C5 as claimed: in both cases the constructor fails with an
\* unsupported-mesh error.
C5_UnsupportedMeshRejected ==
  [][(MeshMissing \/ FrameUnsupported)
       => (pc' = "failed" /\ error' \in UnsupportedMesh)]_vars

\* C5 as amended: NAME or END_SCORE before EXTENDED_MESH fails with the
\* unsupported-mesh error; a line that ends the accumulation without
\* "FRAME CARTESIAN" fails the construction, with the unsupported-mesh error
\* exactly when steps 4 and 5 succeeded on the accumulated tokens and with
\* the error of those steps otherwise.
C5_UnsupportedMeshRejectedAfterMeshRead ==
  [][/\ MeshMissing => (pc' = "failed" /\ error' = "EXTENDED_MESH not found.")
     /\ FrameUnsupported =>
          /\ pc' = "failed"
          /\ IF MeshReadable(buf, line')
               THEN error' = "Tally must have FRAME CARTESIAN."
               ELSE error' \in {"Could not read EXTENDED_MESH.",
                                "ValueError: 'FRAME' is not in list",
                                "ValueError: could not convert string to float",
                                "ValueError: invalid literal for int()",
                                "IndexError: index 1 is out of bounds"}]_vars

\* C5's case has happened: a FRAME line of another frame type was rejected
\* after a readable mesh
C5_Witness ==
  /\ pc = "failed" /\ error = "Tally must have FRAME CARTESIAN."
  /\ Contains(line, FRAME) /\ ~Contains(line, FRAME_CARTESIAN)
  /\ Len(buf) = MeshTokens /\ Ns # <<>>

\* C6: when the file ends in one of the marker scans (SCORE, tally name,
\* EXTENDED_MESH, FRAME, frame end, results section, "Energy range"), the
\* constructor fails with one of its own parse errors.
C6_EofIsParseError ==
  [][(pc \in {"score", "def", "mesh", "meshacc", "frame", "results", "energy"} /\ MeetsEof)
       => (pc' = "failed" /\ error' \in ParseErrors)]_vars

\* the records handed to the writer by the calls cs
RECURSIVE Records(_)
Records(cs) == IF cs = <<>> THEN 0 ELSE Head(cs).n + Records(Tail(cs))

\* C7: save_tracks on a Tally with a positive cell and a non-empty spectrum
\* completes and hands (positive cells) x (spectrum length) records to the
\* writer.
C7_ParticleCount ==
  [][(SaveStep /\ Len(Es) >= 1 /\ Positive(I) # {}) =>
       /\ ret'.raised = ""
       /\ Records(SubSeq(writer', Len(writer) + 1, Len(writer')))
            = Cardinality(Positive(I)) * Len(Es)]_vars

C9_EmptySpectrumPrecondition ==
  [][(SaveStep /\ Len(Es) = 0) =>
       /\ ret'.raised = "No decay spectrum."
       /\ writer' = writer
       /\ <<I, err, Es, Ews, J, grids, vcell, origin, dx1, dx2, dx3>>'
            = <<I, err, Es, Ews, J, grids, vcell, origin, dx1, dx2, dx3>>]_vars

\* C9's case has happened: save_tracks was called on a Tally without spectrum
C9_Witness ==
  /\ pc = "ready" /\ Len(Es) = 0 /\ ret.op = "save_tracks"
  /\ ret.raised = "No decay spectrum." /\ writer = <<>>

\* C10: whatever methods were called, self.I and self.err are as the
\* constructor left them.
C10_TallyImmutable == pc = "ready" => (I = I0 /\ err = err0)

\* C11: when the constructor has returned or raised, the output file handle
\* is not open and, if a geometry graph was given, neither is the image's.
C11_ResourceRelease ==
  pc \in {"ready", "failed"} => (file # "open" /\ image # "open")

\* read_spectrum returns or raises in this step
SpectrumEnds == pc = "spectrum" /\ pc' # "spectrum"

\* C12: read_spectrum(None) returns two empty lists without error; with a
\* file that has no line with numeric fields 0 and 2 it raises "Empty decay
\* spectrum."; it returns empty lists only for None.
C12_EmptySpectrumOutcome ==
  [][SpectrumEnds =>
       /\ ~csv.given => (pc' = "geomplot" /\ error' = "" /\ Es' = <<>> /\ Ews' = <<>>)
       /\ (csv.given /\ usable = 0) => (pc' = "failed" /\ error' = "Empty decay spectrum.")
       /\ (pc' = "geomplot" /\ Es' = <<>>) => ~csv.given]_vars

\* the batches handed to appendssv in this step
NewTracks == SubSeq(tracks', Len(tracks) + 1, Len(tracks'))
\* the cells whose centre is the position pos
CellsAt(pos) == {c \in DOMAIN I : Centre(c) = pos}
\* the tally value of cell c over the mean of the positive tally values
CellWeight(c) ==
  RDiv(I[c], Mean([k \in 1..Cardinality(Positive(I)) |-> I[Ascending(Positive(I))[k]]]))
\* the intensity of spectrum line j over the mean intensity
LineWeight(j) == RDiv(Ews[j], Mean(Ews))

C14_EnergyCycling ==
  [][(SaveStep /\ Len(Es) >= 1 /\ Positive(I) # {}) =>
       LET L == Len(Es)
           cells == Ascending(Positive(I))
           N == Len(cells)
       IN  /\ Len(NewTracks) = L
           /\ \A i \in 0..(L - 1) :
                /\ Len(NewTracks[i + 1]) = N
                /\ \A k \in 0..(N - 1) :
                     LET rec == NewTracks[i + 1][k + 1]
                         j == ((i + k) % L) + 1
                     IN  /\ rec.E = Es[j]
                         /\ rec.w = RMul(CellWeight(cells[k + 1]), LineWeight(j))
           /\ \A c \in Positive(I) : \A j \in 1..L :
                Cardinality({ik \in (1..L) \X (1..N) :
                               /\ NewTracks[ik[1]][ik[2]].pos = Centre(c)
                               /\ ((ik[1] + ik[2] - 2) % L) + 1 = j}) = 1]_vars

\* the sum of the weights of the batches bs
RECURSIVE Weights(_)
Weights(bs) ==
  IF bs = <<>> THEN RInt(0)
  ELSE RAdd(RSum([k \in DOMAIN Head(bs) |-> Head(bs)[k].w]), Weights(Tail(bs)))

\* C18: save_tracks on N >= 1 positive cells and a spectrum of L >= 1 lines
\* of positive total intensity emits N x L records whose weights sum to N x L.
C18_MeanWeightOne ==
  [][(SaveStep /\ Len(Es) >= 1 /\ Positive(I) # {} /\ RPos(RSum(Ews))) =>
       /\ Records(SubSeq(writer', Len(writer) + 1, Len(writer')))
            = Cardinality(Positive(I)) * Len(Es)
       /\ Weights(NewTracks) = RInt(Cardinality(Positive(I)) * Len(Es))]_vars

\* the tokens ts hold EXTENDED_MESH and, after it, FRAME
MeshEnds(ts) ==
  /\ Index(ts, EXTENDED_MESH) # 0
  /\ Index(Drop(ts, Index(ts, EXTENDED_MESH)), FRAME) # 0
\* the tokens strictly between EXTENDED_MESH and the next FRAME
MeshBetween(ts) ==
  LET rest == Drop(ts, Index(ts, EXTENDED_MESH)) IN Take(rest, Index(rest, FRAME) - 1)
\* the tokens read from the EXTENDED_MESH line on, the line of this step included
MeshStream == IF pc = "mesh" THEN Split(line') ELSE stream \o Split(line')
\* the line read in this step brings the FRAME token that follows EXTENDED_MESH
MeshCompletes ==
  /\ ReadsLine /\ MeshEnds(MeshStream)
  /\ \/ pc = "mesh"
     \/ pc = "meshacc" /\ ~MeshEnds(stream)

\* C15: when the FRAME token that follows EXTENDED_MESH is read, on the same
\* line or a later one, the constructor fails with "Could not read
\* EXTENDED_MESH." if the tokens between the two are not 10, and otherwise
\* takes tokens 1-3, 4-6 and 7-9 as the minimum bounds, the maximum bounds and
\* the cell counts.
C15_MeshTokens ==
  [][MeshCompletes =>
       LET t == MeshBetween(MeshStream) IN
         IF Len(t) # MeshTokens
           THEN pc' = "failed" /\ error' = "Could not read EXTENDED_MESH."
           ELSE AllNum(SubSeq(t, 2, 10)) =>
                  /\ mins' = Doubles(SubSeq(t, 2, 4))
                  /\ maxs' = Doubles(SubSeq(t, 5, 7))
                  /\ Ns' = Ints(SubSeq(t, 8, 10))]_vars

\* the leftmost place in line l where one of the frame's end markers begins
FirstStop(l) ==
  LET at == {i \in DOMAIN l : \E k \in DOMAIN FrameStops :
               /\ i + Len(FrameStops[k]) - 1 <= Len(l)
               /\ SubSeq(l, i, i + Len(FrameStops[k]) - 1) = FrameStops[k]}
  IN  CHOOSE i \in at : \A j \in at : i <= j
\* the line read in this step is the first after the FRAME line to contain
\* one of NAME, END_SCORE, //, /*
FrameCompletes == pc = "frame" /\ ReadsLine /\ StopsIn(line') # {}
\* the tokens after CARTESIAN up to the leftmost marker of that line
FrameBetween ==
  Drop(stream, Index(stream, CARTESIAN))
    \o Split(SubSeq(line', 1, FirstStop(line') - 1))

\* C16: when the first line containing NAME, END_SCORE, // or /* is read
\* after the FRAME line, the tokens accumulated are those after CARTESIAN up
\* to the leftmost marker of that line, attached to another token or not;
\* the constructor fails with "Could not read FRAME CARTESIAN." unless they
\* are 12, and then reads the origin and the axes from them.
C16_FrameTokens ==
  [][FrameCompletes =>
       IF Len(FrameBetween) # FrameTokens
         THEN pc' = "failed" /\ error' = "Could not read FRAME CARTESIAN."
         ELSE /\ buf' = FrameBetween
              /\ AllNum(FrameBetween) =>
                   /\ pc' = "results"
                   /\ origin' = Doubles(SubSeq(FrameBetween, 1, 3))
                   /\ dx3' = Doubles(SubSeq(FrameBetween, 10, 12))]_vars

\* the line is the header of the results of the tally named tallyname
ResultsOf(l) ==
  LET ts == Split(l) IN
    /\ Contains(l, SCORE_NAME)
    /\ \E i \in DOMAIN ts : ts[i] = <<":">> /\ i < Len(ts) /\ ts[i + 1] = tallyname

\* C17: the result-section scan stops at a line exactly when the line is the
\* "SCORE NAME :" header of the requested tally, so the rows read are never
\* those of a tally whose name only starts with the requested name.
C17_ResultsOfRequestedTally ==
  [][(pc = "results" /\ ReadsLine) => (pc' = "energy" <=> ResultsOf(line'))]_vars
=============================================================================
